---- MODULE Spec2Model ----
(***************************************************************************)
(* Model of weather_cli.py: the OpenWeather lookup (get_weather), the      *)
(* in-memory favourites list and the four menu flows of the main loop.     *)
(* Typed lines and city names are sequences of one-character strings, so   *)
(* that str.strip(), int() and exact string comparison are computed.       *)
(***************************************************************************)
EXTENDS Integers, Sequences, FiniteSets, TLC

\* ---------------------------------------------------------------- bounds
\* longest line typed at a city prompt
MaxCityLen == 2
\* longest line typed at the menu prompt or at the removal-index prompt
MaxNumLen == 2

\* ------------------------------------------------------ program constants
MaxFavourites == 3
HTTP_OK == 200
HTTP_NOT_FOUND == 404

\* ------------------------------------------------------------ typed lines
SeqsUpTo(S, n) == UNION {[1..k -> S] : k \in 0..n}

CityChars == {"P", " "}
NumChars == {"0", "1", "2", "3", "4", "5", "-", "x", " "}
Digits == {"0", "1", "2", "3", "4", "5", "6", "7", "8", "9"}
CityLines == SeqsUpTo(CityChars, MaxCityLen)
NumLines == SeqsUpTo(NumChars, MaxNumLen)

\* canonical names the API may answer with in the "name" field
ApiNames == {<<"P">>, <<"T">>, <<"B">>}

RECURSIVE LStrip(_)
LStrip(s) == IF s # <<>> /\ Head(s) = " " THEN LStrip(Tail(s)) ELSE s

RECURSIVE RStrip(_)
RStrip(s) ==
    IF s # <<>> /\ s[Len(s)] = " " THEN RStrip(SubSeq(s, 1, Len(s) - 1)) ELSE s

\* str.strip()
Strip(s) == RStrip(LStrip(s))

DigitVal(c) ==
    CASE c = "0" -> 0 [] c = "1" -> 1 [] c = "2" -> 2 [] c = "3" -> 3
      [] c = "4" -> 4 [] c = "5" -> 5 [] c = "6" -> 6 [] c = "7" -> 7
      [] c = "8" -> 8 [] c = "9" -> 9

RECURSIVE DecVal(_)
DecVal(s) == IF s = <<>> THEN 0 ELSE 10 * DecVal(SubSeq(s, 1, Len(s) - 1)) + DigitVal(s[Len(s)])

\* int(str): optional sign, then one or more decimal digits; anything else
\* raises ValueError (ok = FALSE). The digit separators ("1_0") and the
\* non-ASCII digits int() also takes are outside NumChars.
ParseInt(s) ==
    LET signed == s # <<>> /\ Head(s) \in {"+", "-"}
        body == IF signed THEN Tail(s) ELSE s
        good == body # <<>> /\ \A i \in 1..Len(body) : body[i] \in Digits
    IN  IF ~good THEN [ok |-> FALSE, val |-> 0]
        ELSE [ok |-> TRUE,
              val |-> IF signed /\ Head(s) = "-" THEN 0 - DecVal(body) ELSE DecVal(body)]

\* a prompt that forgets to strip the line
prompt_city_name_raw(line) == line

\* prompt_city_name: the stripped line, or None (here the empty sequence,
\* which `if not city` treats the same way)
prompt_city_name(line) == Strip(line)

\* ------------------------------------------------------------ environment
\* os.getenv(API_KEY_ENV_VAR): unset (None), set to "", or set to a key
EnvValues ==
    {[set |-> FALSE, val |-> ""], [set |-> TRUE, val |-> ""], [set |-> TRUE, val |-> "k"]}

\* a test for None only, which takes the empty string for a key
HasApiKey_set(env) == env.set

\* get_api_key: `if not api_key` is true of None and of the empty string
HasApiKey(env) == env.set /\ env.val # ""

\* ------------------------------------------------------- HTTP responses
MainKeys == {"temp", "feels_like", "humidity"}
MainVals == [temp |-> 21, feels_like |-> 19, humidity |-> 60]

MainShapes ==
    {[t |-> "absent", keys |-> {}], [t |-> "null", keys |-> {}]}
        \cup {[t |-> "dict", keys |-> K] : K \in SUBSET MainKeys}
\* an item of the "weather" list: its description is missing, a string or null
WeatherItems ==
    {[t |-> "nodesc", v |-> ""], [t |-> "str", v |-> "clear sky"],
     [t |-> "str", v |-> ""], [t |-> "null", v |-> ""]}
WeatherShapes ==
    {[t |-> "absent", items |-> <<>>], [t |-> "null", items |-> <<>>],
     [t |-> "list", items |-> <<>>]}
        \cup {[t |-> "list", items |-> <<w>>] : w \in WeatherItems}
WindShapes ==
    {[t |-> "absent", has |-> FALSE], [t |-> "null", has |-> FALSE],
     [t |-> "dict", has |-> FALSE], [t |-> "dict", has |-> TRUE]}
SysShapes ==
    {[t |-> "absent", has |-> FALSE], [t |-> "null", has |-> FALSE],
     [t |-> "dict", has |-> FALSE], [t |-> "dict", has |-> TRUE]}
NameShapes ==
    {[t |-> "absent", v |-> <<>>]} \cup {[t |-> "str", v |-> n] : n \in ApiNames}

GoodMain == [t |-> "dict", keys |-> MainKeys]
GoodWeather == [t |-> "list", items |-> <<[t |-> "str", v |-> "clear sky"]>>]
GoodWind == [t |-> "dict", has |-> TRUE]
GoodSys == [t |-> "dict", has |-> TRUE]

\* decoded JSON bodies: obj = FALSE is a body whose top level is no object
Bodies ==
    [obj : {TRUE}, main : MainShapes, weather : WeatherShapes, wind : WindShapes,
     sys : SysShapes, name : NameShapes]
NonObjectBody ==
    [obj |-> FALSE, main |-> GoodMain, weather |-> GoodWeather, wind |-> GoodWind,
     sys |-> GoodSys, name |-> [t |-> "absent", v |-> <<>>]]
GoodBody(n) ==
    [obj |-> TRUE, main |-> GoodMain, weather |-> GoodWeather, wind |-> GoodWind,
     sys |-> GoodSys, name |-> n]

Statuses == {HTTP_OK, HTTP_NOT_FOUND, 401, 500}

\* what requests.get does: net = FALSE is a RequestException; otherwise a
\* response with a status and a body that is JSON (json) or not
Responses ==
    [net : {FALSE}, status : {0}, json : {FALSE}, body : {NonObjectBody}]
        \cup [net : {TRUE}, status : Statuses \ {HTTP_OK}, json : {FALSE}, body : {NonObjectBody}]
        \cup [net : {TRUE}, status : {HTTP_OK}, json : {FALSE}, body : {NonObjectBody}]
        \cup [net : {TRUE}, status : {HTTP_OK}, json : {TRUE}, body : Bodies \cup {NonObjectBody}]

\* the responses the flows are driven with: every failure of the request,
\* every well-formed body with every name, and every body that departs from
\* the well-formed one in one of its four sub-objects
OneFaultBodies ==
    {[GoodBody([t |-> "absent", v |-> <<>>]) EXCEPT !.main = m] : m \in MainShapes}
        \cup {[GoodBody([t |-> "absent", v |-> <<>>]) EXCEPT !.weather = w] : w \in WeatherShapes}
        \cup {[GoodBody([t |-> "absent", v |-> <<>>]) EXCEPT !.wind = w] : w \in WindShapes}
        \cup {[GoodBody([t |-> "absent", v |-> <<>>]) EXCEPT !.sys = y] : y \in SysShapes}
FlowResponses ==
    [net : {FALSE}, status : {0}, json : {FALSE}, body : {NonObjectBody}]
        \cup [net : {TRUE}, status : Statuses \ {HTTP_OK}, json : {FALSE}, body : {NonObjectBody}]
        \cup [net : {TRUE}, status : {HTTP_OK}, json : {FALSE}, body : {NonObjectBody}]
        \cup [net : {TRUE}, status : {HTTP_OK}, json : {TRUE},
              body : {NonObjectBody} \cup OneFaultBodies \cup {GoodBody(n) : n \in NameShapes}]

\* ------------------------------------------------------------ get_weather
NoInfo ==
    [city |-> <<>>, country |-> "", temp |-> 0, feels_like |-> 0,
     description |-> [t |-> "none", v |-> ""], humidity |-> 0, wind_speed |-> 0]

\* raise WeatherError(...): kind of error, the city and status its message
\* carries, and whether the GET had been sent
WeatherError(err, city, status, sent) ==
    [kind |-> "WeatherError", err |-> err, city |-> city, status |-> status,
     sent |-> sent, info |-> NoInfo]
\* an exception that is no WeatherError leaving get_weather
Raise(exc) ==
    [kind |-> "raise", err |-> exc, city |-> <<>>, status |-> HTTP_OK,
     sent |-> TRUE, info |-> NoInfo]
Return(info) ==
    [kind |-> "ok", err |-> "", city |-> <<>>, status |-> HTTP_OK,
     sent |-> TRUE, info |-> info]

\* a 404 message that leaves the city out
CityNotFound_nocity(city) == WeatherError("CityNotFound", <<>>, HTTP_NOT_FOUND, TRUE)

\* line 69
CityNotFound(city) == WeatherError("CityNotFound", city, HTTP_NOT_FOUND, TRUE)

\* the requested name kept although the API answered with its own
info_city_requested(city, data) == city

\* line 85: data.get("name", city)
info_city(city, data) == IF data.name.t = "str" THEN data.name.v ELSE city

\* lines 77-94: the try block over the decoded body
Simplify(city, data) ==
    LET wl == data.weather
        fromList == wl.t = "list" /\ wl.items # <<>>
    IN  IF ~data.obj THEN WeatherError("MalformedResponse", <<>>, HTTP_OK, TRUE)
        ELSE IF data.main.t = "absent" THEN WeatherError("MalformedResponse", <<>>, HTTP_OK, TRUE)
        ELSE IF fromList /\ wl.items[1].t = "nodesc"
            THEN WeatherError("MalformedResponse", <<>>, HTTP_OK, TRUE)
        ELSE IF data.sys.t = "null" THEN Raise("AttributeError")
        ELSE IF data.main.t = "null" \/ data.main.keys # MainKeys
            THEN WeatherError("MalformedResponse", <<>>, HTTP_OK, TRUE)
        ELSE IF data.wind.t = "null" THEN Raise("AttributeError")
        ELSE Return(
            [city |-> info_city(city, data),
             country |-> IF data.sys.t = "dict" /\ data.sys.has THEN "FR" ELSE "",
             temp |-> MainVals.temp,
             feels_like |-> MainVals.feels_like,
             description |-> IF fromList THEN [t |-> wl.items[1].t, v |-> wl.items[1].v]
                             ELSE [t |-> "str", v |-> "N/A"],
             humidity |-> MainVals.humidity,
             wind_speed |-> IF data.wind.t = "dict" /\ data.wind.has THEN 5 ELSE 0])

get_weather(city, env, resp) ==
    IF ~HasApiKey(env) THEN WeatherError("MissingCredential", <<>>, 0, FALSE)
    ELSE IF ~resp.net THEN WeatherError("Network", <<>>, 0, TRUE)
    ELSE IF resp.status = HTTP_NOT_FOUND THEN CityNotFound(city)
    ELSE IF resp.status # HTTP_OK THEN WeatherError("ApiStatus", <<>>, resp.status, TRUE)
    ELSE IF ~resp.json THEN Raise("JSONDecodeError")
    ELSE Simplify(city, resp.body)

\* print_weather: info["description"].title() raises AttributeError when the
\* description is no string
print_weather_raises(info) == info.description.t # "str"

\* ---------------------------------------------------------- list helpers
\* `city in favourites`
Contains(favs, name) == \E i \in 1..Len(favs) : favs[i] = name

\* a capacity test that lets a full list through
AtCapacity_gt(favs) == Len(favs) > MaxFavourites

\* len(favourites) >= 3
AtCapacity(favs) == Len(favs) >= MaxFavourites

\* a range test that takes the choice for a 0-based index
InRange_zero(choice, favs) == 0 <= choice /\ choice <= Len(favs)

\* 1 <= choice <= len(favourites)
InRange(choice, favs) == 1 <= choice /\ choice <= Len(favs)

\* list.pop() without its argument: always the last entry
Pop_last(favs, i) == SubSeq(favs, 1, Len(favs) - 1)

\* list.pop(i): i counts from 0, a negative i counts from the end
Pop(favs, i) ==
    LET j == IF i < 0 THEN i + Len(favs) ELSE i
    IN  SubSeq(favs, 1, j) \o SubSeq(favs, j + 2, Len(favs))

\* list.insert(0, name) instead of list.append(name)
append_front(favs, name) == <<name>> \o favs

\* the entry list.pop(i) returns
Popped(favs, i) == favs[(IF i < 0 THEN i + Len(favs) ELSE i) + 1]

\* list.append(name)
append(favs, name) == Append(favs, name)

\* ------------------------------------------------------------------ state
VARIABLES
    env,         \* value of OPENWEATHER_API_KEY in the process environment
    favourites,  \* main's list of favourite cities
    pc,          \* position of the single thread of control
    flow,        \* what the current iteration of the menu loop dispatched to
    city,        \* last value returned by prompt_city_name
    typed,       \* last line read by prompt_city_name, as typed
    choice_str,  \* stripped line read at the removal prompt
    idx,         \* position of list_favourites_flow's loop (1-based)
    pre,         \* favourites as they were when the menu was last shown
    calls,       \* get_weather calls of this iteration, in order
    prompts,     \* prompt_city_name calls of this iteration
    out,         \* last message printed in this iteration
    resp,        \* what requests.get met in the last get_weather call
    res,         \* outcome of the last get_weather call
    exitStatus,  \* exit status once terminated, -1 while running
    exc          \* exception that ended the process, "none" otherwise

vars ==
    <<env, favourites, pc, flow, city, typed, choice_str, idx, pre, calls, prompts, out,
      resp, res, exitStatus, exc>>

Flows == {"search", "add", "list", "update"}

NoResponse == [net |-> FALSE, status |-> 0, json |-> FALSE, body |-> NonObjectBody]
NoResult ==
    [kind |-> "none", err |-> "", city |-> <<>>, status |-> 0, sent |-> FALSE,
     info |-> NoInfo]

Say(msg) == [msg |-> msg, city |-> <<>>, err |-> ""]
SayCity(msg, name) == [msg |-> msg, city |-> name, err |-> ""]
\* print(f"Error: {e}"): the message of the WeatherError, with what it carries
SayError(msg, r) == [msg |-> msg, city |-> r.city, err |-> r.err]

Call(name, r) == [city |-> name, sent |-> r.sent, kind |-> r.kind]

Init ==
    /\ env \in EnvValues
    /\ favourites = <<>>
    /\ pc = "start"
    /\ flow = "none"
    /\ city = <<>>
    /\ typed = <<>>
    /\ choice_str = <<>>
    /\ idx = 0
    /\ pre = <<>>
    /\ calls = <<>>
    /\ prompts = 0
    /\ out = Say("")
    /\ resp = NoResponse
    /\ res = NoResult
    /\ exitStatus = -1
    /\ exc = "none"

\* the flow returns to main's loop
Finish(msg) ==
    /\ out' = msg
    /\ pc' = "loop_end"
    /\ UNCHANGED <<exitStatus, exc>>

\* the flow goes on at another position
Goto(msg, where) ==
    /\ out' = msg
    /\ pc' = where
    /\ UNCHANGED <<exitStatus, exc>>

\* lines 265-271: an exception leaves main(); a WeatherError is reported as
\* fatal and the process exits with 1, any other exception ends the
\* interpreter with a traceback and status 1
Propagate(e) ==
    /\ out' = IF e = "WeatherError" THEN Say("Fatal error") ELSE Say("Traceback")
    /\ pc' = "terminated"
    /\ exitStatus' = 1
    /\ exc' = e

\* main(), lines 239-243
Start ==
    /\ pc = "start"
    /\ pc' = "menu"
    /\ favourites' = <<>>
    /\ out' = Say("Welcome")
    /\ UNCHANGED <<env, flow, city, typed, choice_str, idx, pre, calls, prompts, resp, res,
                   exitStatus, exc>>

\* main(), lines 246-262: one reading of the menu choice and its dispatch
MainLoop ==
    /\ pc = "menu"
    /\ \E line \in NumLines :
        LET choice == Strip(line)
        IN  IF choice = <<"1">> THEN flow' = "search" /\ Goto(out, "search")
            ELSE IF choice = <<"2">> THEN flow' = "add" /\ Goto(out, "add")
            ELSE IF choice = <<"3">> THEN flow' = "list" /\ Goto(out, "list")
            ELSE IF choice = <<"4">> THEN flow' = "update" /\ Goto(out, "update")
            ELSE IF choice = <<"5">>
                THEN /\ flow' = "exit"
                     /\ out' = Say("Goodbye!")
                     /\ pc' = "terminated"
                     /\ exitStatus' = 0
                     /\ exc' = "none"
            ELSE flow' = "invalid" /\ Finish(Say("Invalid choice. Please select 1-5."))
    /\ UNCHANGED <<env, favourites, city, typed, choice_str, idx, pre, calls, prompts, resp, res>>

\* the while loop of main() comes round: the menu is shown again
LoopAgain ==
    /\ pc = "loop_end"
    /\ pc' = "menu"
    /\ flow' = "none"
    /\ city' = <<>>
    /\ typed' = <<>>
    /\ choice_str' = <<>>
    /\ idx' = 0
    /\ pre' = favourites
    /\ calls' = <<>>
    /\ prompts' = 0
    /\ out' = Say("")
    /\ resp' = NoResponse
    /\ res' = NoResult
    /\ UNCHANGED <<env, favourites, exitStatus, exc>>

\* search_city_flow, lines 123-126
search_city_flow ==
    /\ pc = "search"
    /\ \E line \in CityLines :
        LET c == prompt_city_name(line)
        IN  /\ typed' = line
            /\ city' = c
            /\ prompts' = prompts + 1
            /\ IF c = <<>> THEN Finish(Say("Search cancelled."))
               ELSE Goto(out, "search_lookup")
    /\ UNCHANGED <<env, favourites, flow, choice_str, idx, pre, calls, resp, res>>

\* a search that also stores the city it found, as the Add flow does
search_lookup_store ==
    /\ pc = "search_lookup"
    /\ \E q \in FlowResponses :
        LET r == get_weather(city, env, q)
        IN  /\ resp' = q
            /\ res' = r
            /\ calls' = Append(calls, Call(city, r))
            /\ IF r.kind = "WeatherError"
               THEN Finish(SayError("Error", r)) /\ UNCHANGED favourites
               ELSE IF r.kind = "raise" THEN Propagate(r.err) /\ UNCHANGED favourites
               ELSE IF print_weather_raises(r.info)
               THEN Propagate("AttributeError") /\ UNCHANGED favourites
               ELSE /\ favourites' = append(favourites, r.info.city)
                    /\ Finish(SayCity("Weather for", r.info.city))
    /\ UNCHANGED <<env, flow, city, typed, choice_str, idx, pre, prompts>>

\* search_city_flow, lines 128-134
search_lookup ==
    /\ pc = "search_lookup"
    /\ \E q \in FlowResponses :
        LET r == get_weather(city, env, q)
        IN  /\ resp' = q
            /\ res' = r
            /\ calls' = Append(calls, Call(city, r))
            /\ IF r.kind = "WeatherError" THEN Finish(SayError("Error", r))
               ELSE IF r.kind = "raise" THEN Propagate(r.err)
               ELSE IF print_weather_raises(r.info) THEN Propagate("AttributeError")
               ELSE Finish(SayCity("Weather for", r.info.city))
    /\ UNCHANGED <<env, favourites, flow, city, typed, choice_str, idx, pre, prompts>>

\* add_favourite_flow, lines 139-151
add_favourite_flow ==
    /\ pc = "add"
    /\ IF AtCapacity(favourites)
       THEN /\ Finish(Say("You already have 3 favourite cities."))
            /\ UNCHANGED <<city, typed, prompts>>
       ELSE \E line \in CityLines :
            LET c == prompt_city_name(line)
            IN  /\ typed' = line
            /\ city' = c
                /\ prompts' = prompts + 1
                /\ IF c = <<>> THEN Finish(Say("Add favourite cancelled."))
                   ELSE IF Contains(favourites, c)
                       THEN Finish(SayCity("is already in your favourites", c))
                   ELSE Goto(out, "add_lookup")
    /\ UNCHANGED <<env, favourites, flow, choice_str, idx, pre, calls, resp, res>>

\* a validation that asks once more after a network error
add_lookup_retry ==
    /\ pc = "add_lookup"
    /\ \E q \in FlowResponses :
        LET r == get_weather(city, env, q)
        IN  /\ resp' = q
            /\ res' = r
            /\ calls' = Append(calls, Call(city, r))
            /\ IF r.kind = "WeatherError" /\ r.err = "Network" /\ calls = <<>>
               THEN Goto(SayError("Error", r), "add_lookup") /\ UNCHANGED favourites
               ELSE IF r.kind = "WeatherError"
               THEN Finish(SayError("Error", r)) /\ UNCHANGED favourites
               ELSE IF r.kind = "raise"
               THEN Propagate(r.err) /\ UNCHANGED favourites
               ELSE /\ favourites' = append(favourites, r.info.city)
                    /\ Finish(SayCity("Added", r.info.city))
    /\ UNCHANGED <<env, flow, city, typed, choice_str, idx, pre, prompts>>

\* add_favourite_flow, lines 154-161
add_lookup ==
    /\ pc = "add_lookup"
    /\ \E q \in FlowResponses :
        LET r == get_weather(city, env, q)
        IN  /\ resp' = q
            /\ res' = r
            /\ calls' = Append(calls, Call(city, r))
            /\ IF r.kind = "WeatherError"
               THEN Finish(SayError("Error", r)) /\ UNCHANGED favourites
               ELSE IF r.kind = "raise"
               THEN Propagate(r.err) /\ UNCHANGED favourites
               ELSE /\ favourites' = append(favourites, r.info.city)
                    /\ Finish(SayCity("Added", r.info.city))
    /\ UNCHANGED <<env, flow, city, typed, choice_str, idx, pre, prompts>>

\* list_favourites_flow, lines 166-171
list_favourites_flow ==
    /\ pc = "list"
    /\ IF favourites = <<>>
       THEN Finish(Say("You have no favourite cities yet.")) /\ UNCHANGED idx
       ELSE Goto(Say("Favourite cities and their current weather:"), "list_lookup")
                /\ idx' = 1
    /\ UNCHANGED <<env, favourites, flow, city, typed, choice_str, pre, calls, prompts, resp, res>>

\* list_favourites_flow, lines 172-178: one turn of the for loop
list_lookup ==
    /\ pc = "list_lookup"
    /\ \E q \in FlowResponses :
        LET name == favourites[idx]
            r == get_weather(name, env, q)
            next == IF idx < Len(favourites) THEN "list_lookup" ELSE "loop_end"
        IN  /\ resp' = q
            /\ res' = r
            /\ calls' = Append(calls, Call(name, r))
            /\ IF r.kind = "WeatherError"
               THEN Goto(SayError("Error fetching weather for", r), next) /\ idx' = idx + 1
               ELSE IF r.kind = "raise" THEN Propagate(r.err) /\ UNCHANGED idx
               ELSE IF print_weather_raises(r.info)
               THEN Propagate("AttributeError") /\ UNCHANGED idx
               ELSE Goto(SayCity("Weather for", r.info.city), next) /\ idx' = idx + 1
    /\ UNCHANGED <<env, favourites, flow, city, typed, choice_str, pre, prompts>>

\* update_favourites_flow, lines 183-204
update_favourites_flow ==
    /\ pc = "update"
    /\ IF favourites = <<>>
       THEN /\ Finish(Say("You have no favourite cities to update."))
            /\ UNCHANGED <<favourites, choice_str>>
       ELSE \E line \in NumLines :
            LET s == Strip(line)
                choice == ParseInt(s)
            IN  /\ choice_str' = s
                /\ IF ~choice.ok
                   THEN Finish(Say("Invalid input. Please enter a number."))
                            /\ UNCHANGED favourites
                   ELSE IF ~InRange(choice.val, favourites)
                   THEN Finish(Say("Choice out of range.")) /\ UNCHANGED favourites
                   ELSE /\ favourites' = Pop(favourites, choice.val - 1)
                        /\ Goto(SayCity("Removed", Popped(favourites, choice.val - 1)),
                                "update_city")
    /\ UNCHANGED <<env, flow, city, typed, idx, pre, calls, prompts, resp, res>>

\* update_favourites_flow, lines 207-214
update_city ==
    /\ pc = "update_city"
    /\ \E line \in CityLines :
        LET c == prompt_city_name(line)
        IN  /\ typed' = line
            /\ city' = c
            /\ prompts' = prompts + 1
            /\ IF c = <<>> THEN Finish(Say("Update cancelled. No new city added."))
               ELSE IF Contains(favourites, c)
                   THEN Finish(SayCity("is already in your favourites", c))
               ELSE Goto(out, "update_lookup")
    /\ UNCHANGED <<env, favourites, flow, choice_str, idx, pre, calls, resp, res>>

\* update_favourites_flow, lines 216-223
update_lookup ==
    /\ pc = "update_lookup"
    /\ \E q \in FlowResponses :
        LET r == get_weather(city, env, q)
        IN  /\ resp' = q
            /\ res' = r
            /\ calls' = Append(calls, Call(city, r))
            /\ IF r.kind = "WeatherError"
               THEN Finish(SayError("Error", r)) /\ UNCHANGED favourites
               ELSE IF r.kind = "raise"
               THEN Propagate(r.err) /\ UNCHANGED favourites
               ELSE /\ favourites' = append(favourites, r.info.city)
                    /\ Finish(SayCity("Added", r.info.city))
    /\ UNCHANGED <<env, flow, city, typed, choice_str, idx, pre, prompts>>

Next ==
    \/ Start
    \/ MainLoop
    \/ LoopAgain
    \/ search_city_flow
    \/ search_lookup
    \/ add_favourite_flow
    \/ add_lookup
    \/ list_favourites_flow
    \/ list_lookup
    \/ update_favourites_flow
    \/ update_city
    \/ update_lookup

Spec == Init /\ [][Next]_vars

\* --------------------------------------------- get_weather on its own
\* names a caller may pass to get_weather: a stripped, non-empty typed line
\* or a stored favourite
TypedNames == {Strip(l) : l \in CityLines} \ {<<>>}

InitLookup ==
    /\ env \in EnvValues
    /\ city \in TypedNames
    /\ typed = city
    /\ resp \in Responses
    /\ res = NoResult
    /\ pc = "call"
    /\ favourites = <<>>
    /\ flow = "none"
    /\ choice_str = <<>>
    /\ idx = 0
    /\ pre = <<>>
    /\ calls = <<>>
    /\ prompts = 0
    /\ out = Say("")
    /\ exitStatus = -1
    /\ exc = "none"

\* one call of get_weather(city) meeting the response resp
Lookup ==
    /\ pc = "call"
    /\ res' = get_weather(city, env, resp)
    /\ calls' = Append(calls, Call(city, res'))
    /\ pc' = "returned"
    /\ UNCHANGED <<env, favourites, flow, city, typed, choice_str, idx, pre, prompts, out, resp,
                   exitStatus, exc>>

NextLookup == Lookup

SpecLookup == InitLookup /\ [][NextLookup]_vars

\* ================================================================ claims
\* s without its p-th entry (1-based), the others in their order
RemoveAt(s, p) == [i \in 1..(Len(s) - 1) |-> IF i < p THEN s[i] ELSE s[i + 1]]

\* the number typed at the removal prompt
TypedChoice == ParseInt(choice_str)

\* the name the API answered with, or the requested one when it gave none
CanonicalName == IF resp.body.name.t = "str" THEN resp.body.name.v ELSE city

\* C1: the store never holds two identical names, also when a lookup
\* answers with a canonical name that differs from the typed spelling.
C1_NoDuplicateNames ==
    \A i, j \in 1..Len(favourites) : i # j => favourites[i] # favourites[j]

\* C2: in every reachable state the store holds between 0 and 3 entries.
C2_AtMostThree == Len(favourites) >= 0 /\ Len(favourites) <= 3

\* an Update flow that started with a full store and added its replacement
C2_Witness ==
    /\ flow = "update" /\ pc = "loop_end" /\ out.msg = "Added"
    /\ Len(pre) = 3 /\ Len(favourites) = 3

\* C3: with the credential unset the process ends with a non-zero status
\* before any menu interaction: no flow is entered, and a termination is
\* never one with status 0.
C3_MissingCredentialFatal ==
    ~HasApiKey(env) =>
        /\ flow = "none"
        /\ pc \in {"start", "menu", "terminated"}
        /\ pc = "terminated" => exitStatus # 0

\* C4: whatever the lookup meets, the flow prints a message and returns to
\* the menu: the process never ends on an exception raised during a flow.
C4_NoErrorEndsTheLoop == pc = "terminated" => exc = "none" /\ flow = "exit"

\* C5: an Update flow that removed an entry and then added nothing (the
\* replacement was cancelled, a duplicate, or its lookup failed) leaves the
\* pre-flow store without exactly the selected entry.
UpdateFailedAfterRemoval ==
    /\ flow = "update"
    /\ \/ /\ pc = "loop_end"
          /\ out.msg \in {"Update cancelled. No new city added.",
                          "is already in your favourites", "Error"}
       \/ pc = "terminated"
C5_NoRollback ==
    UpdateFailedAfterRemoval =>
        /\ TypedChoice.ok
        /\ Len(favourites) = Len(pre) - 1
        /\ favourites = RemoveAt(pre, TypedChoice.val)

\* the second of three entries was removed and the replacement's lookup failed
C5_Witness ==
    /\ UpdateFailedAfterRemoval /\ pc = "loop_end" /\ out.msg = "Error"
    /\ Len(pre) = 3 /\ TypedChoice.val = 2 /\ pre[1] # pre[3]

\* C6: an Update flow with a valid index p whose replacement is looked up
\* successfully ends with the pre-flow store without its p-th entry,
\* followed by the replacement's canonical name.
C6_UpdateReplaces ==
    (flow = "update" /\ pc = "loop_end" /\ out.msg = "Added") =>
        /\ TypedChoice.ok
        /\ favourites = RemoveAt(pre, TypedChoice.val) \o <<CanonicalName>>

\* [Paris, Tokyo], p = 1, Berlin gives [Tokyo, Berlin]
C6_Witness ==
    /\ flow = "update" /\ pc = "loop_end" /\ out.msg = "Added"
    /\ pre = << <<"P">>, <<"T">> >> /\ TypedChoice.val = 1
    /\ favourites = << <<"T">>, <<"B">> >>

\* C7: in the Update flow a removal input that is no number, or a number
\* below 1 or above the length of the store, aborts the flow: the store is
\* as before, no replacement is prompted for and no lookup is issued.
BadChoice ==
    \/ ~TypedChoice.ok
    \/ TypedChoice.val < 1
    \/ TypedChoice.val > Len(pre)
C7_BadIndexAborts ==
    (flow = "update" /\ pc # "update" /\ pre # <<>> /\ BadChoice) =>
        /\ pc = "loop_end"
        /\ favourites = pre
        /\ prompts = 0
        /\ calls = <<>>

\* the index 0 was typed against a store of two entries
C7_Witness ==
    /\ flow = "update" /\ pc = "loop_end" /\ Len(pre) = 2
    /\ TypedChoice.ok /\ TypedChoice.val = 0

\* C8: with 3 stored entries the Add flow reports that the list is full and
\* leaves the store as it was, without a prompt and without a lookup.
C8_AddAtCapacity ==
    (flow = "add" /\ pc # "add" /\ Len(pre) = 3) =>
        /\ pc = "loop_end"
        /\ out.msg = "You already have 3 favourite cities."
        /\ favourites = pre
        /\ prompts = 0
        /\ calls = <<>>

\* the Add flow has returned from a store of three different names
C8_Witness ==
    /\ flow = "add" /\ pc = "loop_end" /\ Len(pre) = 3
    /\ pre[1] # pre[2] /\ pre[2] # pre[3] /\ pre[1] # pre[3]

\* C9: an Add flow whose lookup ends in an error leaves the store as it
\* was, and after a 404 the printed error carries the requested city.
C9_AddLookupError ==
    (flow = "add" /\ pc = "loop_end" /\ calls # <<>>) =>
        /\ (~resp.net \/ resp.status # HTTP_OK \/ res.kind = "WeatherError") =>
                favourites = pre
        /\ (HasApiKey(env) /\ resp.net /\ resp.status = HTTP_NOT_FOUND) =>
                out.msg = "Error" /\ out.err = "CityNotFound" /\ out.city = city

\* a 404 for a city typed while the store was not empty
C9_Witness ==
    /\ flow = "add" /\ pc = "loop_end" /\ calls # <<>> /\ pre # <<>>
    /\ resp.net /\ resp.status = HTTP_NOT_FOUND /\ out.city = <<"P", "P">>

\* C10: get_weather classifies by strict precedence: network failure, then
\* 404, then any other non-200 status, then a 200 whose main.temp,
\* main.feels_like or main.humidity is missing, and a record otherwise;
\* every response gets exactly one of these five outcomes, and an error
\* comes with no record.
MainFieldsMissing ==
    \/ ~resp.json
    \/ ~resp.body.obj
    \/ resp.body.main.t # "dict"
    \/ resp.body.main.keys # MainKeys
ExpectedOutcome ==
    IF ~resp.net THEN "Network"
    ELSE IF resp.status = HTTP_NOT_FOUND THEN "CityNotFound"
    ELSE IF resp.status # HTTP_OK THEN "ApiStatus"
    ELSE IF MainFieldsMissing THEN "MalformedResponse"
    ELSE "record"
C10_StrictPrecedence ==
    (pc = "returned" /\ HasApiKey(env)) =>
        /\ IF ExpectedOutcome = "record" THEN res.kind = "ok"
           ELSE res.kind = "WeatherError" /\ res.err = ExpectedOutcome
        /\ res.kind # "ok" => res.info = NoInfo

\* C11: every record get_weather returns has all its fields populated and a
\* description that is never empty: the first weather item's description,
\* or "N/A" when the list is empty or absent; country defaults to "", wind
\* speed to 0 and city to the requested name.
C11_RecordPopulated ==
    (pc = "returned" /\ res.kind = "ok") =>
        LET b == resp.body
            d == res.info.description
        IN  /\ d.t = "str"
            /\ d.v # ""
            /\ d.v = IF b.weather.t = "list" /\ b.weather.items # <<>>
                     THEN b.weather.items[1].v ELSE "N/A"
            /\ res.info.country = IF b.sys.t = "dict" /\ b.sys.has THEN "FR" ELSE ""
            /\ res.info.wind_speed = IF b.wind.t = "dict" /\ b.wind.has THEN 5 ELSE 0
            /\ res.info.city = IF b.name.t = "str" THEN b.name.v ELSE city
            /\ res.info.temp = MainVals.temp
            /\ res.info.feels_like = MainVals.feels_like
            /\ res.info.humidity = MainVals.humidity

\* C12: the List flow over a non-empty store looks up every stored entry
\* once, in store order, one after the other; a failure for one entry does
\* not keep the lookups for the remaining entries from being made.
C12_ListLooksUpEveryEntry ==
    (flow = "list" /\ pre # <<>>) =>
        /\ \A i \in 1..Len(calls) : i <= Len(favourites) /\ calls[i].city = favourites[i]
        /\ pc = "list_lookup" => Len(calls) = idx - 1
        /\ pc \in {"loop_end", "terminated"} => Len(calls) = Len(favourites)

\* C13: the program terminates only through the exit selection "5"; an
\* input that is none of the five options is reported, leaves the store
\* unchanged, issues no lookup and leads back to the menu.
C13_ExitOnlyOnFive ==
    /\ pc = "terminated" => flow = "exit" /\ exitStatus = 0
    /\ flow = "invalid" =>
        /\ pc = "loop_end"
        /\ out.msg = "Invalid choice. Please select 1-5."
        /\ favourites = pre
        /\ calls = <<>>

\* C14: a name enters the store only as the canonical name of a lookup that
\* succeeded in the same flow, in the very step that appends it; every
\* other change of the store only takes entries away.
ElementsOf(favs) == {favs[i] : i \in 1..Len(favs)}
C14_OnlyValidatedNames ==
    [][IF Len(favourites') > Len(favourites)
       THEN /\ pc \in {"add_lookup", "update_lookup"}
            /\ resp'.net /\ resp'.status = HTTP_OK /\ resp'.json
            /\ res'.kind = "ok"
            /\ calls' = Append(calls, [city |-> city, sent |-> TRUE, kind |-> "ok"])
            /\ favourites' =
                   Append(favourites,
                          IF resp'.body.name.t = "str" THEN resp'.body.name.v ELSE city)
       ELSE ElementsOf(favourites') \subseteq ElementsOf(favourites)]_vars

\* the Add flow stored a canonical name that is not the typed spelling
C14_Witness ==
    /\ flow = "add" /\ pc = "loop_end" /\ out.msg = "Added"
    /\ favourites = Append(pre, CanonicalName)
    /\ CanonicalName # city /\ res.kind = "ok"

\* C15: while the credential is absent no HTTP request is sent: every
\* lookup fails with the missing-credential error before the GET, and the
\* store never gains an entry.
CredentialAbsent == ~env.set \/ env.val = ""
C15_NoRequestWithoutCredential ==
    CredentialAbsent =>
        /\ favourites = <<>>
        /\ \A i \in 1..Len(calls) : ~calls[i].sent /\ calls[i].kind = "WeatherError"
        /\ calls # <<>> => res.err = "MissingCredential" /\ ~res.sent

\* an Add flow has looked a city up with the variable set to the empty string
C15_Witness ==
    /\ env.set /\ env.val = ""
    /\ flow = "add" /\ pc = "loop_end" /\ calls # <<>> /\ out.msg = "Error"

\* C16: in the Add flow the lookup comes first and the duplicate test after
\* its success: a duplicate is never reported for an input that was not
\* looked up.
C16_DuplicateOnlyAfterLookup ==
    (flow = "add" /\ out.msg = "is already in your favourites") =>
        /\ Len(calls) = 1
        /\ calls[1].city = city
        /\ calls[1].kind = "ok"

\* C17: no lookup is retried: one Search, Add or Update flow makes at most
\* one get_weather call and sends at most one GET, a List flow at most one
\* per stored entry, and nothing else sends a GET.
Gets == Cardinality({i \in 1..Len(calls) : calls[i].sent})
C17_NoRetry ==
    /\ flow \in {"search", "add", "update"} => Len(calls) <= 1 /\ Gets <= 1
    /\ flow = "list" => Len(calls) <= Len(favourites) /\ Gets <= Len(favourites)
    /\ flow \notin Flows => calls = <<>>

\* a List flow over three entries sent three GETs, one of which failed
C17_Witness ==
    /\ flow = "list" /\ pc = "loop_end" /\ Len(favourites) = 3 /\ Gets = 3
    /\ \E i \in 1..Len(calls) : calls[i].kind = "WeatherError"

\* C18: in the Search and Add flows a city line that is empty or made of
\* white space only cancels the flow: no lookup, the store unchanged, back
\* to the menu.
Blank(l) == \A i \in 1..Len(l) : l[i] = " "
C18_BlankInputCancels ==
    (flow \in {"search", "add"} /\ prompts = 1 /\ Blank(typed)) =>
        /\ pc = "loop_end"
        /\ out.msg \in {"Search cancelled.", "Add favourite cancelled."}
        /\ calls = <<>>
        /\ favourites = pre

\* a line of white space was typed in the Add flow over a non-empty store
C18_Witness ==
    /\ flow = "add" /\ prompts = 1 /\ typed # <<>> /\ Blank(typed)
    /\ pre # <<>> /\ pc = "loop_end"

\* C19: the Search and List flows never modify the store.
C19_SearchListReadOnly == flow \in {"search", "list"} => favourites = pre

\* a search found a city that is not among the stored ones
C19_Witness ==
    /\ flow = "search" /\ pc = "loop_end" /\ res.kind = "ok"
    /\ pre # <<>> /\ ~Contains(pre, res.info.city)

====
